---------------------------- MODULE Spec2Model ----------------------------
(***************************************************************************)
(* A model of monoio-transports' layer-4 connectors                        *)
(* (src/connectors/l4_connector.rs: TcpConnector, fn tunnel, UnixConnector,*)
(* UnifiedL4Connector, UnifiedL4Addr, UnifiedL4Stream) and of the request  *)
(* pipeline of monoio-http-client (src/client/mod.rs, Client::send).       *)
(*                                                                         *)
(* Bytes are the integers 0..255 and texts are sequences of bytes, so that *)
(* starts_with, ends_with and UTF-8 validation are computed on the real    *)
(* byte values.                                                            *)
(***************************************************************************)
EXTENDS Integers, Sequences, FiniteSets, TLC

VARIABLES
    \* ---- the tunnel handshake ----
    key,        \* what the destination key resolves to: an error, or a sequence of addresses
    connIn,     \* every byte the proxy side of the stream will ever deliver
    connCloses, \* whether the proxy closes the stream after connIn
    connRead,   \* how many bytes of connIn the handshake's reads have consumed
    connOut,    \* the bytes written to the proxy
    buf,        \* the Vec<u8> handed to write_all and to read (its initialized part)
    pos,        \* the running count of received bytes
    res,        \* the count returned by the latest read
    tpc,        \* where the handshake is: "start", "write", "read", "done"
    outcome,    \* what tunnel() ended with: "none" while running
    \* ---- Client::send ----
    uri,        \* per send: the request's target
    spc,        \* per send: where it is
    codec,      \* per send: the connection it holds (0: none)
    created,    \* per send: whether its connect opened a new connection
    cause,      \* the latest failure a send met: the send (0: none yet) and what failed
    idleSeen,   \* per send: the idle pooled connections of its key when it connected
    prevConn,   \* per send: the connection of the latest completed send to its key
    pool,       \* the idle pooled connections
    connKey,    \* per connection ever opened: its key
    lastOk,     \* per key: the connection of the latest send that returned Ok (0: none)
    \* ---- TcpConnector, UnixConnector, UnifiedL4Connector ----
    feature,    \* whether the build has the "proxy" feature
    no_delay,   \* TcpConnector's field
    env,        \* the environment: http_proxy and HTTP_PROXY, each unset (<<>>) or <<text>>
    unified,    \* whether connect is called on UnifiedL4Connector (else on TcpConnector)
    ckind,      \* the key's variant: "Tcp" or "Unix"
    cpc,        \* where connect is: "unused", "start", "dial", "tunnel", "done"
    dialed,     \* what the stream's connect was called with
    dialres,    \* how that connect ended: "none", "ok", "err"
    nodelay,    \* set_nodelay(true): "untried", "set", "failed"
    cres,       \* what the TCP or Unix connector ended with: "none" while running
    ures,       \* what UnifiedL4Connector::connect returned
    invoked,    \* the inner connectors whose connect was called
    ops,        \* the operations called on the UnifiedL4Stream, and where each went
    \* ---- UnifiedL4Addr::try_from ----
    kUri,       \* the URI: scheme, host and port, each absent (<<>>) or <<value>>
    kResolve,   \* what (host, port).to_socket_addrs() gives: an error, or a sequence of IPs
    kAddr       \* the result of try_from

tunnelVars == <<key, connIn, connCloses, connRead, connOut, buf, pos, res, tpc, outcome>>
sendVars == <<uri, spc, codec, created, cause, idleSeen, prevConn, pool, connKey, lastOk>>
connVars == <<feature, no_delay, env, unified, ckind, cpc, dialed, dialres, nodelay,
              cres, ures, invoked, ops>>
keyVars == <<kUri, kResolve, kAddr>>
vars == <<tunnelVars, sendVars, connVars, keyVars>>

-----------------------------------------------------------------------------
(* Texts *)

\* HTTP/1.1 200
HTTP11_200 ==
    <<72,84,84,80,47,49,46,49,32,50,48,48>>
\* HTTP/1.0 200
HTTP10_200 ==
    <<72,84,84,80,47,49,46,48,32,50,48,48>>
\* HTTP/2 200
HTTP2_200 ==
    <<72,84,84,80,47,50,32,50,48,48>>
\* \r\n\r\n
CRLFCRLF ==
    <<13,10,13,10>>
\* "CONNECT "
ConnectVerb ==
    <<67,79,78,78,69,67,84,32>>
\* " HTTP/1.1\r\nHOST: "
ConnectMid ==
    <<32,72,84,84,80,47,49,46,49,13,10,72,79,83,84,58,32>>

\* The Display form of two socket addresses: 10.0.0.1:443 and [::1]:80
AddrV4 ==
    <<49,48,46,48,46,48,46,49,58,52,52,51>>
AddrV6 ==
    <<91,58,58,49,93,58,56,48>>

\* What a proxy may send.
\* HTTP/1.1 200 OK\r\n\r\n
Reply200 ==
    <<72,84,84,80,47,49,46,49,32,50,48,48,32,79,75,13,10,13,10>>
\* HTTP/1.0 200 OK\r\n\r\n
Reply200Old ==
    <<72,84,84,80,47,49,46,48,32,50,48,48,32,79,75,13,10,13,10>>
\* HTTP/2 200\r\n\r\n
Reply200H2 ==
    <<72,84,84,80,47,50,32,50,48,48,13,10,13,10>>
\* HTTP/1.1 403 Forbidden\r\n\r\n
Reply403 ==
    <<72,84,84,80,47,49,46,49,32,52,48,51,32,70,111,114,98,105,100,100,101,110,13,10,13,10>>
\* HTTP/1.1 200 OK\r\n\r\nhi\r\n\r\n : the reply, then destination traffic
Reply200ThenData ==
    <<72,84,84,80,47,49,46,49,32,50,48,48,32,79,75,13,10,13,10,104,105,13,10,13,10>>
\* HTTP/1.1 200 OK\r\n\r\nhi
Reply200ThenOpenData ==
    <<72,84,84,80,47,49,46,49,32,50,48,48,32,79,75,13,10,13,10,104,105>>
\* HTTP/1.1 200 OK : no terminator
Reply200NoEnd ==
    <<72,84,84,80,47,49,46,49,32,50,48,48,32,79,75>>
\* HTTP/2 200 : ten bytes, no terminator
Reply200H2NoEnd ==
    <<72,84,84,80,47,50,32,50,48,48>>
\* 0123456789
TenBytes ==
    <<48,49,50,51,52,53,54,55,56,57>>
\* HTTP/1.1 200 \xc3\xa9\r\n\r\n : valid UTF-8 with a two-byte character
Reply200Accent ==
    <<72,84,84,80,47,49,46,49,32,50,48,48,32,195,169,13,10,13,10>>
\* HTTP/1.1 200 \xff\r\n\r\n : not UTF-8
Reply200BadByte ==
    <<72,84,84,80,47,49,46,49,32,50,48,48,32,255,13,10,13,10>>
\* HTTP/1.1 403 \xff\r\n\r\n : not UTF-8
Reply403BadByte ==
    <<72,84,84,80,47,49,46,49,32,52,48,51,32,255,13,10,13,10>>
\* " HTTP/1.1 200 OK\r\n\r\n" : the status line not at the start
ReplyShifted ==
    <<32,72,84,84,80,47,49,46,49,32,50,48,48,32,79,75,13,10,13,10>>

ProxyScripts ==
    { Reply200, Reply200Old, Reply200H2, Reply403, Reply200ThenData,
      Reply200ThenOpenData, Reply200NoEnd, Reply200H2NoEnd, TenBytes, Reply200Accent,
      Reply200BadByte, Reply403BadByte, ReplyShifted }

\* What addr.to_socket_addrs() may give for the key.
KeyResolutions ==
    { [err |-> TRUE,  addrs |-> <<>>],
      [err |-> FALSE, addrs |-> <<>>],
      [err |-> FALSE, addrs |-> <<AddrV4>>],
      [err |-> FALSE, addrs |-> <<AddrV6, AddrV4>>] }

-----------------------------------------------------------------------------
(* Pure functions of the handshake *)

Min(a, b) == IF a < b THEN a ELSE b

\* Vec::with_capacity(8 * 1024)
BufCap == 8 * 1024

Take(s, n) == SubSeq(s, 1, n)

\* str::starts_with
StartsWith(s, p) == Len(s) >= Len(p) /\ SubSeq(s, 1, Len(p)) = p

\* str::ends_with
EndsWith(s, p) == Len(s) >= Len(p) /\ SubSeq(s, Len(s) - Len(p) + 1, Len(s)) = p

\* the three accepted status lines
IsSuccessStartLax(recvd) ==
    \E i \in 1..Len(recvd) : StartsWith(SubSeq(recvd, i, Len(recvd)), HTTP11_200)
IsSuccessStart(recvd) ==
    \/ StartsWith(recvd, HTTP11_200)
    \/ StartsWith(recvd, HTTP10_200)
    \/ StartsWith(recvd, HTTP2_200)

IsCont(b) == b >= 128 /\ b <= 191

\* std::str::from_utf8(..).is_ok()
RECURSIVE Utf8From(_, _)
Utf8From(s, i) ==
    IF i > Len(s) THEN TRUE
    ELSE LET b == s[i]
             has(k) == i + k <= Len(s)
             c(k) == s[i + k]
         IN  IF b < 128 THEN Utf8From(s, i + 1)
             ELSE IF b >= 194 /\ b <= 223
                  THEN has(1) /\ IsCont(c(1)) /\ Utf8From(s, i + 2)
             ELSE IF b >= 224 /\ b <= 239
                  THEN /\ has(2) /\ IsCont(c(1)) /\ IsCont(c(2))
                       /\ (b = 224 => c(1) >= 160)
                       /\ (b = 237 => c(1) <= 159)
                       /\ Utf8From(s, i + 3)
             ELSE IF b >= 240 /\ b <= 244
                  THEN /\ has(3) /\ IsCont(c(1)) /\ IsCont(c(2)) /\ IsCont(c(3))
                       /\ (b = 240 => c(1) >= 144)
                       /\ (b = 244 => c(1) <= 143)
                       /\ Utf8From(s, i + 4)
             ELSE FALSE

Utf8Valid(s) == Utf8From(s, 1)

\* format!("CONNECT {addr} HTTP/1.1\r\nHOST: {addr}\r\n\r\n")
connect_reqBare(addr) == ConnectVerb \o addr \o ConnectMid \o CRLFCRLF
connect_req(addr) == ConnectVerb \o addr \o ConnectMid \o addr \o CRLFCRLF

\* conn.read(buf) on a Vec<u8> b: monoio hands the kernel the Vec's own pointer
\* (write_ptr is as_mut_ptr) and its capacity (bytes_total), and on completion
\* sets the Vec's length to the count read (set_init is set_len). The bytes
\* read land at the start of the Vec, over what an earlier read left there.
ReadInto(b, chunk) == chunk

\* One turn of the loop after a read of n > 0 bytes left the Vec as b, with the
\* count so far p: the value returned, or "none" to read again.
LoopTurn(b, p, n) ==
    IF p > Len(b) THEN "Panic"                   \* &buf[..pos] out of range
    ELSE LET recvd == Take(b, p)
         IN  IF ~Utf8Valid(recvd) THEN "InvalidData"
             ELSE IF IsSuccessStart(recvd)
                  THEN IF EndsWith(recvd, CRLFCRLF) THEN "Ok"
                       ELSE IF n = Len(b) THEN "InvalidData"
                       ELSE "none"
             ELSE "none"

-----------------------------------------------------------------------------
(* TcpConnector::connect, up to its first await, and what it returns *)

DefaultProxyPort == 7890

\* std::env::var("http_proxy").or_else(|_| std::env::var("HTTP_PROXY")).ok():
\* var() is Ok for a variable that is set, whatever its value
ProxyVarUpperFirst(e) ==
    IF e.HTTP_PROXY # <<>> THEN e.HTTP_PROXY ELSE e.http_proxy
ProxyVar(e) ==
    IF e.http_proxy # <<>> THEN e.http_proxy ELSE e.HTTP_PROXY

\* addr.parse::<hyper::Uri>(), with host() and port_u16() of the result
ParseProxyUrl(t) ==
    CASE t = "http://proxy.test:3128" ->
             [ok |-> TRUE, host |-> <<"proxy.test">>, port |-> <<3128>>]
      [] t = "http://proxy.test" ->
             [ok |-> TRUE, host |-> <<"proxy.test">>, port |-> <<>>]
      [] t = "http://other.test:8080" ->
             [ok |-> TRUE, host |-> <<"other.test">>, port |-> <<8080>>]
      [] t = "/tmp/proxy" ->
             [ok |-> TRUE, host |-> <<>>, port |-> <<>>]
      [] OTHER ->
             [ok |-> FALSE, host |-> <<>>, port |-> <<>>]

NoDial == [to |-> "none", host |-> "", port |-> 0]
KeyDial == [to |-> "key", host |-> "", port |-> 0]
UnixDial == [to |-> "unix", host |-> "/run/app.sock", port |-> 0]

\* the body of connect before TcpStream::connect is awaited: either it ends
\* (ret), or it says what to connect to (dial)
TcpConnectorStart(feat, e) ==
    IF feat
    THEN LET proxy == ProxyVar(e)
         IN  IF proxy # <<>>
             THEN LET proxy_url == ParseProxyUrl(Head(proxy))
                  IN  IF ~proxy_url.ok
                      THEN [ret |-> "InvalidInput", dial |-> NoDial]
                      ELSE IF proxy_url.host = <<>>          \* host().unwrap()
                      THEN [ret |-> "Panic", dial |-> NoDial]
                      ELSE [ret |-> "none",
                            dial |-> [to |-> "proxy",
                                      host |-> Head(proxy_url.host),
                                      port |-> IF proxy_url.port # <<>>
                                               THEN Head(proxy_url.port)
                                               ELSE DefaultProxyPort]]
             ELSE [ret |-> "none", dial |-> KeyDial]
    ELSE [ret |-> "none", dial |-> KeyDial]

\* whether the closure given to inspect calls set_nodelay(true)
SetsNodelay(feat, nd) == feat \/ nd

\* let _ = io.set_nodelay(true): the result of inspect is its receiver
AfterInspectStrict(r, fails) == IF fails THEN "IoError" ELSE r
AfterInspect(r, fails) == r

\* UnifiedL4Connector::connect: which inner connector the key's variant selects
Dispatch(uni, kind) == IF uni /\ kind = "Unix" THEN "unix" ELSE "tcp"

\* .map(UnifiedL4Stream::Tcp), .map(UnifiedL4Stream::Unix)
UnifiedMap(kind, r) ==
    IF r = "Stream"
    THEN [ok |-> TRUE, variant |-> kind, err |-> "none"]
    ELSE [ok |-> FALSE, variant |-> "none", err |-> r]

NoResult == [ok |-> FALSE, variant |-> "none", err |-> "none"]

\* match self { Tcp(inner) => inner.op(..), Unix(inner) => inner.op(..) }
ForwardTcp(variant, op) == [inner |-> "Tcp", op |-> op]
Forward(variant, op) == [inner |-> variant, op |-> op]

\* TcpConnector::connect ends with r from TcpStream::connect or from tunnel:
\* inspect runs its closure on Ok only
ConnectReturns(r) ==
    /\ cpc' = "done"
    /\ IF r = "Stream" /\ SetsNodelay(feature, no_delay)
       THEN \E fails \in BOOLEAN :
               /\ nodelay' = (IF fails THEN "failed" ELSE "set")
               /\ cres' = AfterInspect(r, fails)
               /\ ures' = IF unified THEN UnifiedMap(ckind, AfterInspect(r, fails)) ELSE ures
       ELSE /\ nodelay' = nodelay
            /\ cres' = r
            /\ ures' = IF unified THEN UnifiedMap(ckind, r) ELSE ures

\* tunnel() has ended inside connect: its result goes through inspect
TunnelReturns ==
    IF cpc = "tunnel" /\ tpc' = "done"
    THEN /\ ConnectReturns(IF outcome' = "Ok" THEN "Stream" ELSE outcome')
         /\ UNCHANGED <<feature, no_delay, env, unified, ckind, dialed, dialres, invoked, ops>>
    ELSE UNCHANGED connVars

-----------------------------------------------------------------------------
(* The handshake *)

\* Everything the proxy has delivered to the handshake's reads so far.
Received == Take(connIn, connRead)

TunnelInit ==
    /\ key \in KeyResolutions
    /\ connIn \in ProxyScripts
    /\ connCloses \in BOOLEAN
    /\ connRead = 0
    /\ connOut = <<>>
    /\ buf = <<>>
    /\ pos = 0
    /\ res = 0
    /\ tpc = "start"
    /\ outcome = "none"

\* tunnel(), up to the await of write_all
TunnelBegin ==
    /\ tpc = "start"
    /\ IF key.err \/ key.addrs = <<>>        \* .unwrap() of Err, .unwrap() of None
       THEN /\ tpc' = "done"
            /\ outcome' = "Panic"
            /\ buf' = buf
       ELSE /\ tpc' = "write"
            /\ outcome' = outcome
            /\ buf' = connect_req(Head(key.addrs))
    /\ UNCHANGED <<key, connIn, connCloses, connRead, connOut, pos, res>>
    /\ TunnelReturns
    /\ UNCHANGED <<sendVars, keyVars>>

\* write_all completes; buf.clear(); pos = 0; the first read is issued
WriteAllOk ==
    /\ tpc = "write"
    /\ connOut' = connOut \o buf
    /\ buf' = <<>>
    /\ pos' = 0
    /\ tpc' = "read"
    /\ UNCHANGED <<key, connIn, connCloses, connRead, res, outcome>>
    /\ TunnelReturns
    /\ UNCHANGED <<sendVars, keyVars>>

\* write_all fails after k bytes: res? returns the error
WriteAllErr ==
    /\ tpc = "write"
    /\ \E k \in 0..(Len(buf) - 1) : connOut' = connOut \o Take(buf, k)
    /\ tpc' = "done"
    /\ outcome' = "IoError"
    /\ UNCHANGED <<key, connIn, connCloses, connRead, buf, pos, res>>
    /\ TunnelReturns
    /\ UNCHANGED <<sendVars, keyVars>>

\* a read returns n > 0 bytes, and the loop body runs
ReadSome ==
    /\ tpc = "read"
    /\ \E n \in 1..Min(Len(connIn) - connRead, BufCap) :
          LET b == ReadInto(buf, SubSeq(connIn, connRead + 1, connRead + n))
              r == LoopTurn(b, pos + n, n)
          IN  /\ connRead' = connRead + n
              /\ buf' = b
              /\ res' = n
              /\ pos' = pos + n
              /\ outcome' = r
              /\ tpc' = IF r = "none" THEN "read" ELSE "done"
    /\ UNCHANGED <<key, connIn, connCloses, connOut>>
    /\ TunnelReturns
    /\ UNCHANGED <<sendVars, keyVars>>

\* a read returns 0: the proxy closed the stream
ReadEof ==
    /\ tpc = "read"
    /\ connRead = Len(connIn)
    /\ connCloses
    /\ buf' = <<>>
    /\ res' = 0
    /\ outcome' = "UnexpectedEof"
    /\ tpc' = "done"
    /\ UNCHANGED <<key, connIn, connCloses, connRead, connOut, pos>>
    /\ TunnelReturns
    /\ UNCHANGED <<sendVars, keyVars>>

\* a read fails: res? returns the error
ReadErr ==
    /\ tpc = "read"
    /\ outcome' = "IoError"
    /\ tpc' = "done"
    /\ UNCHANGED <<key, connIn, connCloses, connRead, connOut, buf, pos, res>>
    /\ TunnelReturns
    /\ UNCHANGED <<sendVars, keyVars>>

TunnelNext ==
    \/ TunnelBegin
    \/ WriteAllOk
    \/ WriteAllErr
    \/ ReadSome
    \/ ReadEof
    \/ ReadErr


-----------------------------------------------------------------------------
(* The connectors *)

MaxOps == 2
StreamOps == {"read", "readv", "write", "writev", "flush", "shutdown"}

\* the replies of the proxy a connect is run against
ConnectScripts == { Reply200, Reply200H2NoEnd, Reply403, TenBytes }

ProxyTexts1 == { <<>>, <<"">>, <<"http://[">>, <<"/tmp/proxy">>,
                 <<"http://proxy.test:3128">>, <<"http://proxy.test">> }
ProxyTexts2 == { <<>>, <<"">>, <<"http://other.test:8080">> }

Resolves(k) == ~k.err /\ k.addrs # <<>>

ConnInit ==
    /\ feature \in BOOLEAN
    /\ no_delay \in BOOLEAN
    /\ env \in [http_proxy : ProxyTexts1, HTTP_PROXY : ProxyTexts2]
    /\ unified \in BOOLEAN
    /\ ckind \in {"Tcp", "Unix"}
    /\ ckind = "Unix" => unified
    /\ key \in KeyResolutions
    \* a UnifiedL4Addr::Tcp holds one SocketAddr; a Unix key holds a path
    /\ (unified /\ ckind = "Tcp") => key = [err |-> FALSE, addrs |-> <<AddrV4>>]
    /\ ckind = "Unix" => key = [err |-> TRUE, addrs |-> <<>>]
    /\ cpc = "start"
    /\ dialed = NoDial
    /\ dialres = "none"
    /\ nodelay = "untried"
    /\ cres = "none"
    /\ ures = NoResult
    /\ invoked = {}
    /\ ops = <<>>
    /\ connIn = <<>>
    /\ connCloses = FALSE
    /\ connRead = 0
    /\ connOut = <<>>
    /\ buf = <<>>
    /\ pos = 0
    /\ res = 0
    /\ tpc = "done"
    /\ outcome = "none"

\* connect(key), up to its first await
ConnectCall ==
    /\ cpc = "start"
    /\ invoked' = invoked \cup {Dispatch(unified, ckind)}
    /\ IF Dispatch(unified, ckind) = "unix"
       THEN /\ dialed' = UnixDial
            /\ cpc' = "dial"
            /\ UNCHANGED <<nodelay, cres, ures>>
       ELSE LET start == TcpConnectorStart(feature, env)
            IN  IF start.ret # "none"
                THEN /\ dialed' = dialed
                     /\ cpc' = "done"
                     /\ cres' = start.ret
                     /\ ures' = IF unified THEN UnifiedMap(ckind, start.ret) ELSE ures
                     /\ nodelay' = nodelay
                ELSE /\ dialed' = start.dial
                     /\ cpc' = "dial"
                     /\ UNCHANGED <<nodelay, cres, ures>>
    /\ UNCHANGED <<feature, no_delay, env, unified, ckind, dialres, ops>>
    /\ UNCHANGED <<tunnelVars, sendVars, keyVars>>

\* TcpStream::connect or UnixStream::connect succeeds; through a proxy,
\* tunnel() is entered with the stream
DialOk ==
    /\ cpc = "dial"
    /\ dialed.to = "key" => Resolves(key)
    /\ dialres' = "ok"
    /\ CASE dialed.to = "proxy" ->
              /\ cpc' = "tunnel"
              /\ tpc' = "start"
              /\ connIn' \in ConnectScripts
              /\ connCloses' \in BOOLEAN
              /\ UNCHANGED <<nodelay, cres, ures>>
              /\ UNCHANGED <<key, connRead, connOut, buf, pos, res, outcome>>
         [] dialed.to = "unix" ->
              /\ cpc' = "done"
              /\ cres' = "Stream"
              /\ ures' = UnifiedMap(ckind, "Stream")
              /\ nodelay' = nodelay
              /\ UNCHANGED tunnelVars
         [] OTHER ->
              /\ ConnectReturns("Stream")
              /\ UNCHANGED tunnelVars
    /\ UNCHANGED <<feature, no_delay, env, unified, ckind, dialed, invoked, ops>>
    /\ UNCHANGED <<sendVars, keyVars>>

\* TcpStream::connect or UnixStream::connect fails: the key resolves to
\* nothing, or the peer cannot be reached
DialErr ==
    /\ cpc = "dial"
    /\ dialres' = "err"
    /\ IF dialed.to = "unix"
       THEN /\ cpc' = "done"
            /\ cres' = "IoError"
            /\ ures' = UnifiedMap(ckind, "IoError")
            /\ nodelay' = nodelay
       ELSE ConnectReturns("IoError")
    /\ UNCHANGED <<feature, no_delay, env, unified, ckind, dialed, invoked, ops>>
    /\ UNCHANGED <<tunnelVars, sendVars, keyVars>>

\* read, readv, write, writev, flush or shutdown on the UnifiedL4Stream
StreamOp ==
    /\ cpc = "done"
    /\ ures.ok
    /\ Len(ops) < MaxOps
    /\ \E op \in StreamOps :
          ops' = Append(ops, [called |-> op, did |-> Forward(ures.variant, op)])
    /\ UNCHANGED <<feature, no_delay, env, unified, ckind, cpc, dialed, dialres, nodelay,
                   cres, ures, invoked>>
    /\ UNCHANGED <<tunnelVars, sendVars, keyVars>>

ConnectNext ==
    \/ ConnectCall
    \/ DialOk
    \/ DialErr
    \/ TunnelBegin
    \/ WriteAllOk
    \/ WriteAllErr
    \/ ReadSome
    \/ ReadEof
    \/ ReadErr
    \/ StreamOp

-----------------------------------------------------------------------------
(* impl TryFrom<&Uri> for UnifiedL4Addr *)

HttpPort == 80
HttpsPort == 443

default_portPlain(scheme) ==
    IF scheme = <<"https">> THEN HttpsPort ELSE HttpPort
default_port(scheme) ==
    IF scheme = <<"http">> THEN HttpPort
    ELSE IF scheme = <<"https">> THEN HttpsPort
    ELSE 0

NoAddr == [tag |-> "none", ip |-> "", port |-> 0]

\* r is what (host, port).to_socket_addrs() gives
try_from(u, r) ==
    IF u.host = <<>> THEN [NoAddr EXCEPT !.tag = "NoAuthority"]
    ELSE LET port == IF u.port # <<>> THEN Head(u.port) ELSE default_port(u.scheme)
         IN  IF r.err THEN [NoAddr EXCEPT !.tag = "Io"]
             ELSE IF r.ips = <<>> THEN [NoAddr EXCEPT !.tag = "NoResolve"]
             ELSE [tag |-> "Tcp", ip |-> Head(r.ips), port |-> port]

\* the URIs tried: a URI without a host has no scheme and no port
KeyUris ==
    { u \in [scheme : {<<>>, <<"http">>, <<"https">>, <<"ftp">>},
             host : {<<>>, <<"a.test">>, <<"b.test">>},
             port : {<<>>, <<443>>, <<8080>>}] :
        u.host = <<>> => (u.scheme = <<>> /\ u.port = <<>>) }

KeyAnswers ==
    { [err |-> TRUE,  ips |-> <<>>],
      [err |-> FALSE, ips |-> <<>>],
      [err |-> FALSE, ips |-> <<"10.0.0.1">>],
      [err |-> FALSE, ips |-> <<"::1", "10.0.0.1">>] }

KeyInit ==
    /\ kUri \in KeyUris
    /\ kResolve \in KeyAnswers
    /\ kAddr = NoAddr

TryFrom ==
    /\ kAddr = NoAddr
    /\ kAddr' = try_from(kUri, kResolve)
    /\ UNCHANGED <<kUri, kResolve>>
    /\ UNCHANGED <<tunnelVars, sendVars, connVars>>

-----------------------------------------------------------------------------
(* Client::send, and the pooled connector behind self.shared.http_connector *)

NumSends == 3
Sends == 1..NumSends

\* Request targets: one without a host, one whose host resolves to nothing,
\* and two that resolve.
Uris == { [host |-> "none"], [host |-> "gone.test"],
          [host |-> "a.test"], [host |-> "b.test"] }
Keys == { "a.test", "b.test" }

\* uri.try_into(): the key, or the error
DeriveKey(u) ==
    IF u.host = "none" THEN "NoAuthority"
    ELSE IF u.host \notin Keys THEN "NoResolve"
    ELSE u.host

NoUri == [host |-> "none"]

\* checkout(key): the idle entries it may hand out
CheckoutMiss(p, ck, k) == {}
Checkout(p, ck, k) == { c \in p : ck[c] = k }

\* the pool once entry c was handed out
KeepEntry(p, c) == p
RemoveEntry(p, c) == p \ {c}

\* checkin(entry)
Checkin(p, c) == p \cup {c}

InFlight(i) == spc[i] \in {"send", "recv"}

SendInit ==
    /\ uri = [i \in Sends |-> NoUri]
    /\ spc = [i \in Sends |-> "new"]
    /\ codec = [i \in Sends |-> 0]
    /\ created = [i \in Sends |-> FALSE]
    /\ cause = [send |-> 0, what |-> "none"]
    /\ idleSeen = [i \in Sends |-> {}]
    /\ prevConn = [i \in Sends |-> 0]
    /\ pool = {}
    /\ connKey = <<>>
    /\ lastOk = [k \in Keys |-> 0]

\* What a send keeps once it has ended: its local state is dropped.
Ended(f, i, blank) == [f EXCEPT ![i] = blank]

\* send(), up to its first await: the key is derived and unwrapped, and the
\* connector is asked for a connection, which the pool may have
SendCall(i) ==
    /\ spc[i] = "new"
    /\ \A j \in 1..(i - 1) : spc[j] # "new"     \* sends are numbered as they are called
    /\ \E u \in Uris :
          LET k == DeriveKey(u)
          IN  IF k \notin Keys
              THEN /\ cause' = [send |-> i, what |-> k]
                   /\ spc' = [spc EXCEPT ![i] = "panic"]
                   /\ UNCHANGED <<uri, codec, idleSeen, prevConn, pool>>
              ELSE /\ uri' = [uri EXCEPT ![i] = u]
                   /\ cause' = cause
                   /\ idleSeen' = [idleSeen EXCEPT ![i] = { c \in pool : connKey[c] = k }]
                   /\ prevConn' = [prevConn EXCEPT ![i] = lastOk[k]]
                   /\ IF Checkout(pool, connKey, k) = {}
                      THEN /\ spc' = [spc EXCEPT ![i] = "connect"]
                           /\ UNCHANGED <<codec, pool>>
                      ELSE \E c \in Checkout(pool, connKey, k) :
                              /\ codec' = [codec EXCEPT ![i] = c]
                              /\ pool' = RemoveEntry(pool, c)
                              /\ spc' = [spc EXCEPT ![i] = "send"]
    /\ UNCHANGED <<created, connKey, lastOk>>
    /\ UNCHANGED <<tunnelVars, connVars, keyVars>>

\* the connector opened a new connection; send_and_flush is issued
ConnectOk(i) ==
    /\ spc[i] = "connect"
    /\ LET c == Len(connKey) + 1
       IN  /\ connKey' = Append(connKey, DeriveKey(uri[i]))
           /\ codec' = [codec EXCEPT ![i] = c]
    /\ created' = [created EXCEPT ![i] = TRUE]
    /\ spc' = [spc EXCEPT ![i] = "send"]
    /\ UNCHANGED <<uri, cause, idleSeen, prevConn, pool, lastOk>>
    /\ UNCHANGED <<tunnelVars, connVars, keyVars>>

\* The send panics on an unwrap: the task ends there, and the codec it held is
\* dropped with its connection.
Unwrap(i, why) ==
    /\ cause' = [send |-> i, what |-> why]
    /\ spc' = [spc EXCEPT ![i] = "panic"]
    /\ uri' = Ended(uri, i, NoUri)
    /\ codec' = Ended(codec, i, 0)
    /\ created' = Ended(created, i, FALSE)
    /\ idleSeen' = Ended(idleSeen, i, {})
    /\ prevConn' = Ended(prevConn, i, 0)
    /\ UNCHANGED <<pool, connKey, lastOk>>

\* the connector failed: connect(key).await.unwrap()
ConnectErr(i) ==
    /\ spc[i] = "connect"
    /\ Unwrap(i, "Connect")
    /\ UNCHANGED <<tunnelVars, connVars, keyVars>>

\* send_and_flush succeeded; codec.next() is awaited
FlushOk(i) ==
    /\ spc[i] = "send"
    /\ spc' = [spc EXCEPT ![i] = "recv"]
    /\ UNCHANGED <<uri, codec, created, cause, idleSeen, prevConn, pool, connKey, lastOk>>
    /\ UNCHANGED <<tunnelVars, connVars, keyVars>>

FlushErrGoesOn(i) ==
    /\ spc[i] = "send"
    /\ cause' = [send |-> i, what |-> "Send"]
    /\ spc' = [spc EXCEPT ![i] = "recv"]
    /\ UNCHANGED <<uri, codec, created, idleSeen, prevConn, pool, connKey, lastOk>>
    /\ UNCHANGED <<tunnelVars, connVars, keyVars>>

\* send_and_flush failed: .unwrap()
FlushErr(i) ==
    /\ spc[i] = "send"
    /\ Unwrap(i, "Send")
    /\ UNCHANGED <<tunnelVars, connVars, keyVars>>

\* codec.next() gave Some(Ok(resp)): Ok(resp) is returned and the codec dropped,
\* its connection going back to the pool when the response left it reusable
RecvOk(i) ==
    /\ spc[i] = "recv"
    /\ spc' = [spc EXCEPT ![i] = "ok"]
    /\ lastOk' = [lastOk EXCEPT ![connKey[codec[i]]] = codec[i]]
    /\ \E reusable \in BOOLEAN :
          pool' = IF reusable THEN Checkin(pool, codec[i]) ELSE pool
    /\ uri' = Ended(uri, i, NoUri)
    /\ codec' = Ended(codec, i, 0)
    /\ created' = Ended(created, i, FALSE)
    /\ idleSeen' = Ended(idleSeen, i, {})
    /\ prevConn' = Ended(prevConn, i, 0)
    /\ UNCHANGED <<cause, connKey>>
    /\ UNCHANGED <<tunnelVars, connVars, keyVars>>

\* codec.next() gave None: the first unwrap
RecvNone(i) ==
    /\ spc[i] = "recv"
    /\ Unwrap(i, "Closed")
    /\ UNCHANGED <<tunnelVars, connVars, keyVars>>

\* codec.next() gave Some(Err(_)): the second unwrap
RecvErr(i) ==
    /\ spc[i] = "recv"
    /\ Unwrap(i, "Malformed")
    /\ UNCHANGED <<tunnelVars, connVars, keyVars>>

\* an idle entry past the age threshold is discarded
Evict ==
    /\ \E c \in pool : pool' = pool \ {c}
    /\ UNCHANGED <<uri, spc, codec, created, cause, idleSeen, prevConn, connKey, lastOk>>
    /\ UNCHANGED <<tunnelVars, connVars, keyVars>>

SendNext ==
    \/ \E i \in Sends : SendCall(i)
    \/ \E i \in Sends : ConnectOk(i)
    \/ \E i \in Sends : ConnectErr(i)
    \/ \E i \in Sends : FlushOk(i)
    \/ \E i \in Sends : FlushErr(i)
    \/ \E i \in Sends : RecvOk(i)
    \/ \E i \in Sends : RecvNone(i)
    \/ \E i \in Sends : RecvErr(i)
    \/ Evict

-----------------------------------------------------------------------------
(* Specifications *)

\* No handshake is running.
TunnelUnused ==
    /\ key = [err |-> TRUE, addrs |-> <<>>]
    /\ connIn = <<>>
    /\ connCloses = FALSE
    /\ connRead = 0
    /\ connOut = <<>>
    /\ buf = <<>>
    /\ pos = 0
    /\ res = 0
    /\ tpc = "done"
    /\ outcome = "none"

\* No connect is running.
ConnUnused ==
    /\ feature = FALSE
    /\ no_delay = TRUE
    /\ env = [http_proxy |-> <<>>, HTTP_PROXY |-> <<>>]
    /\ unified = FALSE
    /\ ckind = "Tcp"
    /\ cpc = "unused"
    /\ dialed = NoDial
    /\ dialres = "none"
    /\ nodelay = "untried"
    /\ cres = "none"
    /\ ures = NoResult
    /\ invoked = {}
    /\ ops = <<>>

\* No key is being derived.
KeyUnused ==
    /\ kUri = [scheme |-> <<>>, host |-> <<>>, port |-> <<>>]
    /\ kResolve = [err |-> TRUE, ips |-> <<>>]
    /\ kAddr = [NoAddr EXCEPT !.tag = "unused"]

\* The handshake alone.
Init == TunnelInit /\ SendInit /\ ConnUnused /\ KeyUnused
Next == TunnelNext
Spec == Init /\ [][Next]_vars

\* The request pipeline alone.
InitSend == TunnelUnused /\ SendInit /\ ConnUnused /\ KeyUnused
SpecSend == InitSend /\ [][SendNext]_vars

\* The connectors, with the handshake run inside connect.
InitConnect == ConnInit /\ SendInit /\ KeyUnused
SpecConnect == InitConnect /\ [][ConnectNext]_vars

\* The derivation of a UnifiedL4Addr from a URI.
InitKey == KeyInit /\ TunnelUnused /\ SendInit /\ ConnUnused
NextKey == TryFrom
SpecKey == InitKey /\ [][NextKey]_vars

-----------------------------------------------------------------------------
(* Properties of the handshake, stated on what the proxy delivered *)

\* The text begins with one of the three accepted status lines.
BeginsAccepted(s) ==
    \E p \in { HTTP11_200, HTTP10_200, HTTP2_200 } :
        Len(s) >= Len(p) /\ \A i \in 1..Len(p) : s[i] = p[i]

\* The text ends with \r\n\r\n.
EndsBlankLine(s) ==
    /\ Len(s) >= 4
    /\ s[Len(s) - 3] = 13 /\ s[Len(s) - 2] = 10
    /\ s[Len(s) - 1] = 13 /\ s[Len(s)] = 10

\* The offset just past the first \r\n\r\n of the text (0: there is none).
FirstTerminatorEnd(s) ==
    LET ends == { i \in 4..Len(s) : EndsBlankLine(SubSeq(s, 1, i)) }
    IN  IF ends = {} THEN 0 ELSE CHOOSE i \in ends : \A j \in ends : i <= j

\* The handshake has read from the proxy and has ended, not by an I/O error.
EndedAfterReading == tpc = "done" /\ connRead > 0 /\ outcome # "IoError"

\* C1: tunnel returns Ok only when everything received from the proxy so far
\* begins with HTTP/1.1 200, HTTP/1.0 200 or HTTP/2 200 and ends with \r\n\r\n.
C1_OkOnlyOnSuccessReply ==
    outcome = "Ok" => BeginsAccepted(Received) /\ EndsBlankLine(Received)

\* C1 witness: the handshake returned Ok on the HTTP/2 reply.
C1_Witness == outcome = "Ok" /\ Received = Reply200H2

\* C2: once the proxy's complete reply HTTP/1.1 403 Forbidden\r\n\r\n has been
\* read, the handshake has failed with an error that is neither UnexpectedEof
\* nor InvalidData: it has neither succeeded nor is it still reading.
C2_RefusalFailsDistinctly ==
    Received = Reply403 =>
        /\ tpc = "done"
        /\ outcome \notin { "Ok", "UnexpectedEof", "InvalidData", "Panic", "none" }

\* C3: when the proxy writes a few bytes with no terminator and then closes,
\* the handshake, unless a read itself fails, ends with UnexpectedEof.
C3_EarlyCloseIsUnexpectedEof ==
    ( /\ connCloses
      /\ connIn \in { TenBytes, Reply200H2NoEnd, Reply200NoEnd }
      /\ EndedAfterReading )
    => outcome = "UnexpectedEof"

\* C4: when the handshake succeeds it has consumed the stream exactly up to and
\* including the first \r\n\r\n, and no byte after it.
C4_NothingReadPastTerminator ==
    outcome = "Ok" => connRead = FirstTerminatorEnd(connIn)

\* C5: a valid success reply is accepted however the proxy's bytes are split
\* across reads: the handshake, unless a read itself fails, ends with Ok.
C5_SplitReplyAccepted ==
    ( connIn \in { Reply200, Reply200Old, Reply200H2 } /\ EndedAfterReading )
    => outcome = "Ok"

\* C6: the handshake fails with InvalidData on UTF-8 text exactly when a read
\* has filled the buffer to its capacity with no terminator seen; a reply below
\* capacity is not rejected for lacking a terminator.
C6_InvalidDataOnlyWhenFull ==
    /\ (outcome = "InvalidData" /\ Utf8From(Received, 1)) => connRead >= BufCap
    /\ (tpc # "read" /\ connRead >= BufCap /\ FirstTerminatorEnd(Received) = 0)
          => outcome = "InvalidData"

\* C7: whenever the bytes received so far are not valid UTF-8, the handshake has
\* failed with InvalidData at the read that made them so.
C7_BadUtf8IsInvalidData ==
    (connRead > 0 /\ ~Utf8From(Received, 1)) => (tpc = "done" /\ outcome = "InvalidData")

-----------------------------------------------------------------------------
(* Properties of the request pipeline *)

\* C8: every failure of send is returned to the caller as a failure value.
C8_FailuresAreReturned ==
    cause.send # 0 => spc[cause.send] = "err"

\* C9 as stated: a request sent after an earlier request to the same key
\* completed is carried on that request's connection, none being opened.
C9_SecondRequestReuses ==
    \A j \in Sends :
        (codec[j] # 0 /\ prevConn[j] # 0) => (codec[j] = prevConn[j] /\ ~created[j])

\* C9 amended: when the earlier request's connection was returned to the pool
\* and is still idle there as the second request is sent, the second request is
\* carried on an idle pooled connection of its key (the earlier request's, when
\* that is the only one) and no connection is opened for it.
C9_ReuseWhenStillPooled ==
    \A j \in Sends :
        (spc[j] \notin {"new"} /\ prevConn[j] # 0 /\ prevConn[j] \in idleSeen[j])
        => /\ ~created[j]
           /\ spc[j] # "connect"
           /\ codec[j] \in idleSeen[j]
           /\ (idleSeen[j] = {prevConn[j]} => codec[j] = prevConn[j])

\* C9 witness: a second request awaits its response on the connection of the
\* first, which it took from the pool.
C9_Witness ==
    \E j \in Sends :
        /\ spc[j] = "recv"
        /\ prevConn[j] # 0
        /\ idleSeen[j] = {prevConn[j]}
        /\ codec[j] = prevConn[j]
        /\ ~created[j]

\* C10: no two sends in flight hold the same connection, and no connection
\* held by a send in flight is in the pool.
C10_OneRequestPerConnection ==
    /\ \A i, j \in Sends :
          (i # j /\ InFlight(i) /\ InFlight(j)) => codec[i] # codec[j]
    /\ \A i \in Sends : InFlight(i) => codec[i] \notin pool

\* C10 witness: two sends to one key in flight together, one of them on a
\* connection it took from the pool.
C10_Witness ==
    \E i, j \in Sends :
        /\ i # j
        /\ InFlight(i) /\ InFlight(j)
        /\ uri[i] = uri[j]
        /\ ~created[i] /\ created[j]

\* The order in which one send moves through its steps: key derivation in
\* the call, then a connection (from the pool or the connector), then
\* send-and-flush, then one response.
SendOrder ==
    { <<"new", "connect">>, <<"new", "send">>, <<"new", "panic">>,
      <<"connect", "send">>, <<"connect", "panic">>,
      <<"send", "recv">>, <<"send", "panic">>,
      <<"recv", "ok">>, <<"recv", "panic">> }

\* C17: every step of a send follows the fixed order; a send whose step
\* failed takes no further step (no connector call after a failed key
\* derivation, no request bytes after a failed acquisition, no response
\* awaited after a failed send-and-flush); the connector makes a connection
\* only for a send that derived its key and found no pooled connection.
C17_StepsInOrder ==
    [][ /\ \A i \in Sends :
              spc'[i] # spc[i] => <<spc[i], spc'[i]>> \in SendOrder
        /\ cause' # cause => /\ spc[cause'.send] \in {"new", "connect", "send", "recv"}
                             /\ spc'[cause'.send] = "panic"
        /\ connKey' # connKey =>
              \E i \in Sends : /\ spc[i] = "connect"
                               /\ spc'[i] = "send"
                               /\ DeriveKey(uri[i]) \in Keys
                               /\ Len(connKey') = Len(connKey) + 1
      ]_vars

\* C17 witness: one send has its response while another was stopped at
\* send-and-flush.
C17_Witness ==
    /\ cause.what = "Send"
    /\ \E i \in Sends : spc[i] = "ok" /\ i # cause.send

\* The CONNECT request for each destination, byte by byte.
RequestV4 ==
    <<67, 79, 78, 78, 69, 67, 84, 32, 49, 48, 46, 48, 46, 48, 46, 49, 58, 52,
      52, 51, 32, 72, 84, 84, 80, 47, 49, 46, 49, 13, 10, 72, 79, 83, 84, 58,
      32, 49, 48, 46, 48, 46, 48, 46, 49, 58, 52, 52, 51, 13, 10, 13, 10>>
RequestV6 ==
    <<67, 79, 78, 78, 69, 67, 84, 32, 91, 58, 58, 49, 93, 58, 56, 48, 32, 72,
      84, 84, 80, 47, 49, 46, 49, 13, 10, 72, 79, 83, 84, 58, 32, 91, 58, 58,
      49, 93, 58, 56, 48, 13, 10, 13, 10>>
ExpectedRequest ==
    IF key.err \/ key.addrs = <<>> THEN <<>>
    ELSE IF Head(key.addrs) = AddrV6 THEN RequestV6 ELSE RequestV4

\* C18: what the handshake has written is always a prefix of the one CONNECT
\* request for the destination's first resolved address; the request is on
\* the wire in full before any byte is read and nothing follows it; a
\* handshake whose write failed has read nothing.
C18_RequestWrittenOnceFirst ==
    /\ StartsWith(ExpectedRequest, connOut)
    /\ (tpc = "read" \/ connRead > 0 \/ res > 0) => connOut = ExpectedRequest
    /\ (tpc = "done" /\ connOut # ExpectedRequest) =>
          /\ outcome = "IoError"
          /\ connRead = 0

\* C18 witness: a handshake for a destination resolving to two addresses
\* ended in success with the request for the first one on the wire.
C18_Witness ==
    /\ outcome = "Ok"
    /\ key.addrs = <<AddrV6, AddrV4>>
    /\ connOut = RequestV6

\* C19: after every non-empty read pos is within the bytes of the buffer
\* and buf[..pos] is exactly what was received so far.
C19_SliceInRange ==
    (tpc \in {"read", "done"} /\ res > 0) =>
        /\ pos <= Len(buf)
        /\ Take(buf, pos) = Received

\* C20: with a proxy that closes its stream, a handshake that has read
\* something and takes no further step has returned success or an error.
C20_FinishesWithProxy ==
    (connCloses /\ tpc = "done" /\ connRead > 0) =>
        outcome \in {"Ok", "UnexpectedEof", "InvalidData", "IoError"}

\* The first of http_proxy, HTTP_PROXY whose value is non-empty.
FirstNonEmpty ==
    IF env.http_proxy \notin {<<>>, <<"">>} THEN env.http_proxy
    ELSE IF env.HTTP_PROXY \notin {<<>>, <<"">>} THEN env.HTTP_PROXY
    ELSE <<>>

\* C11: in a build with the proxy feature, once connect is past its first
\* step the first non-empty proxy variable decides what was connected to:
\* the proxy's host and port (7890 without a port), the destination reached
\* only through a successful handshake; with neither variable set the
\* destination is connected to directly.
C11_FirstNonEmptyProxyWins ==
    (feature /\ ckind = "Tcp" /\ cpc \in {"dial", "tunnel", "done"}) =>
        /\ FirstNonEmpty = <<"http://proxy.test:3128">> =>
              dialed = [to |-> "proxy", host |-> "proxy.test", port |-> 3128]
        /\ FirstNonEmpty = <<"http://proxy.test">> =>
              dialed = [to |-> "proxy", host |-> "proxy.test", port |-> 7890]
        /\ FirstNonEmpty = <<"http://other.test:8080">> =>
              dialed = [to |-> "proxy", host |-> "other.test", port |-> 8080]
        /\ (dialed.to = "proxy" /\ cres = "Stream") =>
              (outcome = "Ok" /\ connOut = ExpectedRequest)
        /\ (env.http_proxy = <<>> /\ env.HTTP_PROXY = <<>>) =>
              (dialed = KeyDial /\ connOut = <<>>)

\* The first of http_proxy, HTTP_PROXY that is set.
FirstSet ==
    IF env.http_proxy # <<>> THEN env.http_proxy ELSE env.HTTP_PROXY

\* C12: in a build with the proxy feature, a connect that has ended before
\* reading anything from a proxy has returned a stream or an error value,
\* and InvalidInput when the proxy variable in use gives no usable address.
C12_ConnectReturnsAValue ==
    (feature /\ ckind = "Tcp" /\ cpc = "done" /\ connRead = 0) =>
        /\ cres \in {"Stream", "InvalidInput", "IoError", "UnexpectedEof", "InvalidData"}
        /\ FirstSet \in {<<"">>, <<"http://[">>, <<"/tmp/proxy">>} =>
              cres = "InvalidInput"

\* C13: a URI without a host gives NoAuthority and no other URI does; with
\* a host, the port is the explicit one, else 80 for http, 443 for https and
\* 0 otherwise, and the key is Tcp of the first resolved address with that
\* port; a resolution without addresses gives NoResolve.
C13_KeyFromUri ==
    kAddr.tag \notin {"none", "unused"} =>
        /\ kUri.host = <<>> <=> kAddr.tag = "NoAuthority"
        /\ (kUri.host # <<>> /\ ~kResolve.err /\ kResolve.ips = <<>>) <=>
              kAddr.tag = "NoResolve"
        /\ (kUri.host # <<>> /\ ~kResolve.err /\ kResolve.ips # <<>>) <=>
              kAddr.tag = "Tcp"
        /\ kAddr.tag = "Tcp" =>
              /\ kAddr.ip = kResolve.ips[1]
              /\ kUri.port # <<>> => kAddr.port = kUri.port[1]
              /\ (kUri.port = <<>> /\ kUri.scheme = <<"http">>) => kAddr.port = 80
              /\ (kUri.port = <<>> /\ kUri.scheme = <<"https">>) => kAddr.port = 443
              /\ (kUri.port = <<>> /\ kUri.scheme \notin {<<"http">>, <<"https">>}) =>
                    kAddr.port = 0

\* C13 witness: a URI of another scheme, without a port, whose host resolves
\* to two addresses, has given the Tcp key of the first with port 0.
C13_Witness ==
    /\ kUri = [scheme |-> <<"ftp">>, host |-> <<"a.test">>, port |-> <<>>]
    /\ kResolve.ips = <<"::1", "10.0.0.1">>
    /\ kAddr = [tag |-> "Tcp", ip |-> "::1", port |-> 0]

\* C14: set_nodelay is tried only on a stream whose connect (and, through a
\* proxy, handshake) succeeded, and what TcpConnector::connect returns is the
\* stream exactly when they succeeded and their error otherwise, whatever
\* set_nodelay gave.
C14_NodelayNeverDecides ==
    ckind = "Tcp" =>
        /\ nodelay # "untried" =>
              /\ dialres = "ok"
              /\ cres = "Stream"
              /\ dialed.to = "proxy" => outcome = "Ok"
        /\ (cpc = "done" /\ dialres = "err") => cres = "IoError"
        /\ (cpc = "done" /\ dialres = "ok" /\ dialed.to = "key") => cres = "Stream"
        /\ (cpc = "done" /\ dialres = "ok" /\ dialed.to = "proxy") =>
              cres = (IF outcome = "Ok" THEN "Stream" ELSE outcome)

\* C14 witness: a connect through a proxy returned the stream although
\* set_nodelay failed on it.
C14_Witness ==
    /\ cpc = "done"
    /\ dialed.to = "proxy"
    /\ outcome = "Ok"
    /\ nodelay = "failed"
    /\ cres = "Stream"

\* C15: UnifiedL4Connector::connect calls only the connector of the key's
\* variant; a stream it returns has the key's variant and an error it
\* returns is the inner connector's; every operation on the stream goes,
\* unchanged, to the stream of that variant.
C15_UnifiedDispatches ==
    unified =>
        /\ invoked \subseteq {IF ckind = "Tcp" THEN "tcp" ELSE "unix"}
        /\ (cpc = "done" /\ cres = "Stream") =>
              (ures.ok /\ ures.variant = ckind)
        /\ (cpc = "done" /\ cres # "Stream") =>
              (~ures.ok /\ ures.err = cres)
        /\ \A n \in 1..Len(ops) :
              /\ ops[n].did.inner = ckind
              /\ ops[n].did.op = ops[n].called

\* C15 witness: a Unix key gave a Unix stream, on which a write and then a
\* shutdown were called.
C15_Witness ==
    /\ unified
    /\ ckind = "Unix"
    /\ invoked = {"unix"}
    /\ ures = [ok |-> TRUE, variant |-> "Unix", err |-> "none"]
    /\ Len(ops) >= 2
    /\ ops[1].called = "write"
    /\ ops[2].called = "shutdown"

\* C16: after a successful direct connect, set_nodelay was tried exactly
\* when the connector's no_delay field is true, in either build.
C16_NodelayFollowsField ==
    (cpc = "done" /\ cres = "Stream" /\ dialed.to = "key") =>
        (nodelay # "untried" <=> no_delay)

=============================================================================
